---- MODULE Spec2Model ----
(***************************************************************************)
(* Inter-store transfer tracker: the flat-file record store, the config    *)
(* store, the New-Entry / inline-edit / completion-email / push handlers   *)
(* of the Streamlit script, and the tracker filter.                        *)
(*                                                                         *)
(* Text is a sequence of one-character strings, so that strip, lower and   *)
(* substring search are computed and not assumed.  A cell of a data frame  *)
(* is a tagged value [ty, v]: ty is the Python type of the cell and v the  *)
(* text str() gives for it.  Two cells are equal in Python exactly when    *)
(* they are equal here (a datetime.date never equals a str).               *)
(*                                                                         *)
(* An ISO date text YYYY-MM-DD is abbreviated to the letter d followed by  *)
(* a day digit, a UTC timestamp text to the letter t followed by the       *)
(* clock digit.                                                            *)
(*                                                                         *)
(* src/app.py:133 defines load_data as a wrapper around an inner function  *)
(* of the same name (line 134) and returns nothing itself; the model       *)
(* follows the inner body (lines 135-161), which is the value every caller *)
(* uses.                                                                   *)
(***************************************************************************)
EXTENDS Integers, Sequences, FiniteSets, TLC

VARIABLES csv, cfg, now, nruns, last, pc, local, race, arg, res

vars == <<csv, cfg, now, nruns, last, pc, local, race, arg, res>>

-----------------------------------------------------------------------------
(* Bounds *)

MaxRows == 2
MaxClock == 1
MaxRuns == 2

-----------------------------------------------------------------------------
(* Text *)

Range(s) == {s[i] : i \in DOMAIN s}

EmptyText == <<>>

DigitChars == <<"0", "1", "2", "3", "4", "5", "6", "7", "8", "9">>

LowerChar(c) ==
    CASE c = "A" -> "a"
      [] c = "B" -> "b"
      [] c = "F" -> "f"
      [] c = "N" -> "n"
      [] c = "T" -> "t"
      [] c = "Y" -> "y"
      [] OTHER -> c

Lower(t) == [i \in DOMAIN t |-> LowerChar(t[i])]

RECURSIVE LStrip(_)
LStrip(t) == IF t # <<>> /\ Head(t) = " " THEN LStrip(Tail(t)) ELSE t

RECURSIVE RStrip(_)
RStrip(t) ==
    IF t # <<>> /\ t[Len(t)] = " " THEN RStrip(SubSeq(t, 1, Len(t) - 1)) ELSE t

Strip(t) == RStrip(LStrip(t))

\* str.find(needle) >= 0
Find(hay, needle) ==
    \E i \in 0..(Len(hay) - Len(needle)) : SubSeq(hay, i + 1, i + Len(needle)) = needle

IsoDate(k) == <<"d", DigitChars[k + 1]>>

IsIsoDate(t) == Len(t) = 2 /\ t[1] = "d" /\ t[2] \in Range(DigitChars)

\* datetime.utcnow().isoformat(timespec="seconds") + "Z"
Timestamp(n) == <<"t", DigitChars[n + 1]>>

TrueText == <<"T", "r", "u", "e">>
FalseText == <<"F", "a", "l", "s", "e">>

-----------------------------------------------------------------------------
(* Cells *)

Str(t) == [ty |-> "str", v |-> t]
DateCell(t) == [ty |-> "date", v |-> t]
NaT == [ty |-> "NaT", v |-> <<"N", "a", "T">>]
NaN == [ty |-> "NaN", v |-> <<"n", "a", "n">>]
None == [ty |-> "None", v |-> <<"N", "o", "n", "e">>]
BoolCell(b) == [ty |-> "bool", v |-> IF b THEN TrueText ELSE FalseText]

\* What DataFrame.to_csv writes for a cell: missing values as the empty field.
CsvText(cell) == IF cell.ty \in {"NaT", "NaN", "None"} THEN EmptyText ELSE cell.v

-----------------------------------------------------------------------------
(* Schema and frames *)

cDate == "Date of eComm Request"
cOrder == "Order Number"
cInCorrect == "In-Correct"
cStatus == "Status"
cReason == "Reason"
cSent == "Email Sent At"
cArchived == "Archived"
cBy == "Last Modified By"
cAt == "Last Modified At"

SCHEMA == <<cDate, cOrder, cInCorrect, cStatus, cReason, cSent, cArchived, cBy, cAt>>

RangeIndex(n) == [i \in 1..n |-> i - 1]

\* A frame: its columns in order, its index labels and its rows (column -> cell).
Frame(cols, idx, rows) == [cols |-> cols, idx |-> idx, rows |-> rows]

NoFile == [exists |-> FALSE, header |-> <<>>, lines |-> <<>>]

\* DataFrame.to_csv(path, index=False)
to_csv(df) ==
    [exists |-> TRUE,
     header |-> df.cols,
     lines |-> [i \in DOMAIN df.rows |->
                  [c \in Range(df.cols) |-> CsvText(df.rows[i][c])]]]

\* The texts pandas.read_csv takes for a missing value.
NA_VALUES == {EmptyText, <<"N", "A">>}

\* pandas.read_csv(path, dtype=str)
read_csv(file) ==
    Frame(file.header,
          RangeIndex(Len(file.lines)),
          [i \in DOMAIN file.lines |->
             [c \in Range(file.header) |->
                IF file.lines[i][c] \in NA_VALUES THEN NaN ELSE Str(file.lines[i][c])]])

fillna(df, cell) ==
    [df EXCEPT !.rows = [i \in DOMAIN df.rows |->
        [c \in Range(df.cols) |-> IF df.rows[i][c].ty = "NaN" THEN cell ELSE df.rows[i][c]]]]

\* df[c] = cell for a column the frame may lack
SetColumn(df, c, cell) ==
    [cols |-> IF c \in Range(df.cols) THEN df.cols ELSE Append(df.cols, c),
     idx |-> df.idx,
     rows |-> [i \in DOMAIN df.rows |->
                 [k \in Range(df.cols) \cup {c} |-> IF k = c THEN cell ELSE df.rows[i][k]]]]

\* df[cols]
Select(df, cols) ==
    [cols |-> cols,
     idx |-> df.idx,
     rows |-> [i \in DOMAIN df.rows |-> [c \in Range(cols) |-> df.rows[i][c]]]]

EmptyFrame == Frame(SCHEMA, <<>>, <<>>)

\* load_tracker, the file it leaves behind: created with the header when absent.
load_tracker_file(file) == IF file.exists THEN file ELSE to_csv(EmptyFrame)

RECURSIVE AddMissing(_, _)
AddMissing(df, cols) ==
    IF cols = <<>> THEN df
    ELSE AddMissing(IF Head(cols) \in Range(df.cols) THEN df
                    ELSE SetColumn(df, Head(cols), Str(EmptyText)),
                    Tail(cols))

\* load_tracker, the frame it returns.
load_tracker(file) ==
    Select(AddMissing(fillna(read_csv(load_tracker_file(file)), Str(EmptyText)), SCHEMA),
           SCHEMA)

SelectSeq2(s, keep) ==
    LET F[i \in 0..Len(s)] ==
          IF i = 0 THEN <<>>
          ELSE IF s[i] \in keep THEN Append(F[i - 1], s[i]) ELSE F[i - 1]
    IN F[Len(s)]

\* A save that appends the frame's last row to what the file holds now
\* instead of replacing the file.
save_tracker_merging(df) ==
    IF csv.exists /\ df.rows # <<>>
    THEN to_csv(Frame(SCHEMA, RangeIndex(Len(csv.lines) + 1),
                      Append(load_tracker(csv).rows, df.rows[Len(df.rows)])))
    ELSE to_csv(Select(df, SelectSeq2(SCHEMA, Range(df.cols))))

\* save_tracker, the file it writes.
save_tracker(df) == to_csv(Select(df, SelectSeq2(SCHEMA, Range(df.cols))))

-----------------------------------------------------------------------------
(* load_data: the frame the handlers work on *)

ArchivedTrue == {<<"t", "r", "u", "e">>, <<"1">>, <<"y", "e", "s">>, <<"y">>}

\* pd.to_datetime(column, errors="coerce").dt.date, one cell
to_date(cell) == IF IsIsoDate(cell.v) THEN DateCell(cell.v) ELSE NaT

\* column.astype(str).str.strip().str.lower().isin([...]), one cell
to_archived(cell) == BoolCell(Lower(Strip(cell.v)) \in ArchivedTrue)

load_data(file) ==
    LET df == load_tracker(file)
    IN [df EXCEPT !.rows = [i \in DOMAIN df.rows |->
          [k \in Range(df.cols) |->
             CASE k = cDate -> to_date(df.rows[i][k])
               [] k = cArchived -> to_archived(df.rows[i][k])
               [] OTHER -> df.rows[i][k]]]]

\* The records of the persisted store, as load_tracker returns them.
Records(file) == load_tracker(file).rows

-----------------------------------------------------------------------------
(* Config store *)

kDup == "duplicate_check"

\* A parsed config: the keys present and the value under duplicate_check.
Dict(keys, mode) == [keys |-> keys, mode |-> mode]

DEFAULT_CONFIG == Dict({kDup}, "pair")

NoCfg == [exists |-> FALSE, valid |-> FALSE, obj |-> Dict({}, "")]
CorruptCfg == [exists |-> TRUE, valid |-> FALSE, obj |-> Dict({}, "")]

\* save_config, the file it writes.
save_config(obj) == [exists |-> TRUE, valid |-> TRUE, obj |-> obj]

\* cfg.setdefault(k, v) for the keys of DEFAULT_CONFIG
setdefault(obj) == IF kDup \in obj.keys THEN obj ELSE Dict(obj.keys \cup {kDup}, "pair")

\* load_config returning the default without writing it.
load_config_no_persist(file) ==
    IF ~file.exists THEN [ret |-> DEFAULT_CONFIG, file |-> file]
    ELSE IF ~file.valid THEN [ret |-> DEFAULT_CONFIG, file |-> file]
    ELSE [ret |-> setdefault(file.obj), file |-> file]

\* load_config: the value returned and the file left behind.
load_config(file) ==
    IF ~file.exists THEN [ret |-> DEFAULT_CONFIG, file |-> save_config(DEFAULT_CONFIG)]
    ELSE IF ~file.valid THEN [ret |-> DEFAULT_CONFIG, file |-> file]
    ELSE [ret |-> setdefault(file.obj), file |-> file]

\* cfg.get("duplicate_check", "pair")
dupe_mode(obj) == IF kDup \in obj.keys THEN obj.mode ELSE "pair"

-----------------------------------------------------------------------------
(* Email *)

SendOutcomes == {"sent", "not_configured", "smtp_error"}

\* send_email: ok exactly when the secrets are present and the transport succeeds.
send_email(outcome) == outcome = "sent"

-----------------------------------------------------------------------------
(* New entry *)

Sessions == {"s1", "s2"}

\* st.session_state.user_email of a session
user_email(s) == IF s = "s1" THEN <<"a">> ELSE <<"b">>

NoRow == [c \in Range(SCHEMA) |-> None]

\* new_entry_form on submit: the row built, or rejected (no row).
new_entry_form(user, order_num, req_day, incorrect_store, reason, ts) ==
    IF order_num = EmptyText THEN [ok |-> FALSE, row |-> NoRow]
    ELSE [ok |-> TRUE,
          row |-> [c \in Range(SCHEMA) |->
                     CASE c = cDate -> Str(IsoDate(req_day))
                       [] c = cOrder -> Str(Strip(order_num))
                       [] c = cInCorrect -> Str(Strip(incorrect_store))
                       [] c = cStatus -> Str(<<"F">>)
                       [] c = cReason -> Str(Strip(reason))
                       [] c = cSent -> Str(EmptyText)
                       [] c = cArchived -> BoolCell(FALSE)
                       [] c = cBy -> Str(user)
                       [] c = cAt -> Str(Timestamp(ts))]]

\* The duplicate check with the order_only comparison left untrimmed.
dup_exists_untrimmed(df, new, mode) ==
    IF mode = "order_only"
    THEN \E i \in DOMAIN df.rows : df.rows[i][cOrder].v = new[cOrder].v
    ELSE \E i \in DOMAIN df.rows :
            /\ df.rows[i][cOrder] = new[cOrder]
            /\ df.rows[i][cDate] = new[cDate]

\* The duplicate check of the New-Entry handler.
dup_exists(df, new, mode) ==
    IF mode = "order_only"
    THEN \E i \in DOMAIN df.rows : Strip(df.rows[i][cOrder].v) = new[cOrder].v
    ELSE \E i \in DOMAIN df.rows :
            /\ df.rows[i][cOrder] = new[cOrder]
            /\ df.rows[i][cDate] = new[cDate]

\* pd.concat([df, pd.DataFrame([new])], ignore_index=True)
concat(df, new) ==
    Frame(df.cols, RangeIndex(Len(df.rows) + 1), Append(df.rows, new))

\* df.at[label, c] = cell, by position of the label
SetAt(df, pos, c, cell) == [df EXCEPT !.rows[pos][c] = cell]

\* The New-Entry handler stamping the whole Email Sent At column
\* (df["Email Sent At"] = ... instead of df.at[last, ...]).
new_entry_stamp_column(file, cfgfile, new, send_flag, outcome, ts) ==
    LET df == load_data(file)
        mode == dupe_mode(load_config(cfgfile).ret)
        added == concat(df, new)
    IN IF dup_exists(df, new, mode) THEN [save |-> FALSE, df |-> df]
       ELSE [save |-> TRUE,
             df |-> IF send_flag /\ send_email(outcome)
                    THEN SetColumn(added, cSent, Str(Timestamp(ts)))
                    ELSE added]

\* The New-Entry handler giving up, nothing saved, when the auto-email fails.
new_entry_failed_send_aborts(file, cfgfile, new, send_flag, outcome, ts) ==
    LET df == load_data(file)
        mode == dupe_mode(load_config(cfgfile).ret)
        added == concat(df, new)
    IN IF dup_exists(df, new, mode) THEN [save |-> FALSE, df |-> df]
       ELSE IF send_flag /\ ~send_email(outcome) THEN [save |-> FALSE, df |-> df]
       ELSE [save |-> TRUE,
             df |-> IF send_flag
                    THEN SetAt(added, Len(added.rows), cSent, Str(Timestamp(ts)))
                    ELSE added]

\* The New-Entry handler from the submitted row on: the frame to save, if any.
new_entry(file, cfgfile, new, send_flag, outcome, ts) ==
    LET df == load_data(file)
        mode == dupe_mode(load_config(cfgfile).ret)
        added == concat(df, new)
    IN IF dup_exists(df, new, mode) THEN [save |-> FALSE, df |-> df]
       ELSE [save |-> TRUE,
             df |-> IF send_flag /\ send_email(outcome)
                    THEN SetAt(added, Len(added.rows), cSent, Str(Timestamp(ts)))
                    ELSE added]

-----------------------------------------------------------------------------
(* Inline edit *)

\* What one use of st.data_editor(df, num_rows="dynamic") can hand back: the
\* frame as shown, one cell changed, one row deleted, or one empty row added.
CellEdits ==
    {<<cOrder, Str(EmptyText)>>, <<cOrder, Str(<<"B", "1", " ">>)>>,
     <<cSent, None>>, <<cSent, Str(<<"x">>)>>,
     <<cArchived, BoolCell(TRUE)>>, <<cDate, None>>}

DeleteRow(df, pos) ==
    Frame(df.cols,
          [i \in 1..(Len(df.rows) - 1) |-> IF i < pos THEN df.idx[i] ELSE df.idx[i + 1]],
          [i \in 1..(Len(df.rows) - 1) |-> IF i < pos THEN df.rows[i] ELSE df.rows[i + 1]])

AddRow(df) ==
    Frame(df.cols, Append(df.idx, Len(df.rows)), Append(df.rows, [c \in Range(df.cols) |-> None]))

data_editor(df) ==
    {df}
    \cup {SetAt(df, i, e[1], e[2]) : i \in DOMAIN df.rows, e \in CellEdits}
    \cup {DeleteRow(df, i) : i \in DOMAIN df.rows}
    \cup (IF Len(df.rows) < MaxRows THEN {AddRow(df)} ELSE {})

\* edit_selected_rows when "Save changes" is clicked: the frame saved.
edit_selected_rows(ed, user, ts) ==
    SetColumn(SetColumn(ed, cBy, Str(user)), cAt, Str(Timestamp(ts)))

-----------------------------------------------------------------------------
(* Completion email *)

\* df["Order Number"].unique().tolist()
unique_orders(df) == {df.rows[i][cOrder] : i \in DOMAIN df.rows}

\* The first matching position instead of the last (index[0]).
first_match(df, selection) ==
    CHOOSE i \in DOMAIN df.rows :
        /\ df.rows[i][cOrder] = selection
        /\ \A j \in DOMAIN df.rows : df.rows[j][cOrder] = selection => i <= j

\* df[df["Order Number"] == selection].index[-1], as a position
last_match(df, selection) ==
    CHOOSE i \in DOMAIN df.rows :
        /\ df.rows[i][cOrder] = selection
        /\ \A j \in DOMAIN df.rows : df.rows[j][cOrder] = selection => j <= i

\* The "Send completion email" handler after a successful send: the frame saved.
completion_email(file, selection, ts) ==
    LET df == load_data(file)
    IN SetAt(df, last_match(df, selection), cSent, Str(Timestamp(ts)))

-----------------------------------------------------------------------------
(* Remote push *)

\* What the two requests of github_upsert_file can come back with: a status
\* code, or an exception raised by the call.
GetStatuses == {"200", "404", "500", "raise"}
PutStatuses == {"200", "201", "409", "raise"}

\* github_upsert_file: the (success, message) it returns, or that it raised.
github_upsert_file(get, put) ==
    IF get = "raise" THEN [ok |-> FALSE, msg |-> "", raised |-> TRUE]
    ELSE IF get \notin {"200", "404"}
    THEN [ok |-> FALSE, msg |-> "GitHub GET error", raised |-> FALSE]
    ELSE IF put = "raise" THEN [ok |-> FALSE, msg |-> "", raised |-> TRUE]
    ELSE IF put \in {"200", "201"}
    THEN [ok |-> TRUE, msg |-> "Committed to GitHub.", raised |-> FALSE]
    ELSE [ok |-> FALSE, msg |-> "GitHub PUT error", raised |-> FALSE]

\* The push with no try/except around the upload.
push_tracker_to_github_unguarded(configured, file, get, put) ==
    LET r == github_upsert_file(get, put)
    IN IF ~configured
       THEN [ok |-> FALSE, msg |-> "GitHub env not configured. Skipping.",
             raised |-> FALSE, file |-> file, content |-> NoFile]
       ELSE [ok |-> r.ok, msg |-> r.msg, raised |-> r.raised,
             file |-> load_tracker_file(file),
             content |-> to_csv(load_tracker(file))]

\* push_tracker_to_github: the (success, message) it returns, whether it
\* raised, the local file it leaves behind and the content it uploads.
push_tracker_to_github(configured, file, get, put) ==
    LET r == github_upsert_file(get, put)
    IN IF ~configured
       THEN [ok |-> FALSE, msg |-> "GitHub env not configured. Skipping.",
             raised |-> FALSE, file |-> file, content |-> NoFile]
       ELSE IF r.raised
       THEN [ok |-> FALSE, msg |-> "Exception during GitHub push",
             raised |-> FALSE, file |-> load_tracker_file(file),
             content |-> to_csv(load_tracker(file))]
       ELSE [ok |-> r.ok, msg |-> r.msg, raised |-> FALSE,
             file |-> load_tracker_file(file),
             content |-> to_csv(load_tracker(file))]

\* The environment and the remote's answers for one push.
PushInputs ==
    {<<FALSE, "200", "200">>} \cup {<<TRUE, g, p>> : g \in GetStatuses, p \in PutStatuses}

NoPush == [ok |-> FALSE, msg |-> "", raised |-> FALSE]

-----------------------------------------------------------------------------
(* State *)

OrderInputs == {EmptyText, <<" ">>, <<"B", "1", " ">>}
Days == {1, 2}

\* A store left by an earlier New-Entry with a sent auto-email.
SeedRow ==
    [c \in Range(SCHEMA) |->
       CASE c = cDate -> Str(IsoDate(1))
         [] c = cOrder -> Str(<<"B", "1">>)
         [] c = cInCorrect -> Str(EmptyText)
         [] c = cStatus -> Str(<<"F">>)
         [] c = cReason -> Str(EmptyText)
         [] c = cSent -> Str(Timestamp(0))
         [] c = cArchived -> BoolCell(FALSE)
         [] c = cBy -> Str(<<"b">>)
         [] c = cAt -> Str(Timestamp(0))]

\* A second request for the same order, logged for another day, no email sent.
SeedRow2 == [SeedRow EXCEPT ![cDate] = Str(IsoDate(2)), ![cSent] = Str(EmptyText)]

InitStores ==
    {NoFile,
     to_csv(Frame(SCHEMA, <<0>>, <<SeedRow>>)),
     to_csv(Frame(SCHEMA, <<0, 1>>, <<SeedRow, SeedRow2>>))}

InitConfigs ==
    {NoCfg, CorruptCfg, save_config(Dict({}, "")), save_config(Dict({kDup}, "order_only"))}

NoLast ==
    [op |-> "none", s |-> "s1", outcome |-> "", pre |-> NoFile, preCfg |-> NoCfg,
     new |-> NoRow, sel |-> None, at |-> 0, cfgLoad |-> load_config(NoCfg),
     mail |-> <<FALSE, "sent">>, ret |-> NoPush]

Base ==
    /\ now = 0
    /\ nruns = 0
    /\ last = NoLast
    /\ pc = [s \in Sessions |-> "idle"]
    /\ local = [s \in Sessions |-> [df |-> EmptyFrame, new |-> NoRow]]
    /\ race = [overlap |-> FALSE, order |-> <<>>]
    /\ arg = [df |-> EmptyFrame, crit |-> 0]
    /\ res = [df |-> EmptyFrame, ok |-> TRUE]

Init ==
    /\ csv \in InitStores
    /\ cfg \in InitConfigs
    /\ Base

Ran(op, s, outcome, new, sel) ==
    [op |-> op, s |-> s, outcome |-> outcome, pre |-> csv, preCfg |-> cfg,
     new |-> new, sel |-> sel, at |-> now, cfgLoad |-> load_config(cfg),
     mail |-> <<FALSE, "sent">>, ret |-> NoPush]

Idle == UNCHANGED <<pc, local, race, arg, res>>

\* One script run in which the New-Entry form is submitted.
NewEntry(s, order_num, req_day, send_flag, outcome) ==
    LET file0 == load_tracker_file(csv)
        form == new_entry_form(user_email(s), order_num, req_day, EmptyText, EmptyText, now)
        r == new_entry(file0, cfg, form.row, send_flag, outcome, now)
    IN /\ nruns < MaxRuns
       /\ Len(file0.lines) < MaxRows
       /\ csv' = IF form.ok /\ r.save THEN save_tracker(r.df) ELSE file0
       /\ cfg' = load_config(cfg).file
       /\ last' = [Ran("new_entry", s,
                       IF ~form.ok THEN "rejected"
                       ELSE IF ~r.save THEN "duplicate" ELSE "added",
                       form.row, None)
                   EXCEPT !.mail = <<send_flag, outcome>>]
       /\ nruns' = nruns + 1
       /\ UNCHANGED now
       /\ Idle

\* One script run in which "Save changes" is clicked under the editor.
SaveEdits(s, ed) ==
    /\ nruns < MaxRuns
    /\ csv' = save_tracker(edit_selected_rows(ed, user_email(s), now))
    /\ cfg' = load_config(cfg).file
    /\ last' = Ran("save_edits", s, "saved", NoRow, None)
    /\ nruns' = nruns + 1
    /\ UNCHANGED now
    /\ Idle

\* One script run in which "Send completion email" is clicked.
CompletionEmail(s, selection, outcome) ==
    LET file0 == load_tracker_file(csv)
    IN /\ nruns < MaxRuns
       /\ selection \in unique_orders(load_data(file0))
       /\ csv' = IF send_email(outcome)
                 THEN save_tracker(completion_email(file0, selection, now))
                 ELSE file0
       /\ cfg' = load_config(cfg).file
       /\ last' = Ran("completion_email", s, outcome, NoRow, selection)
       /\ nruns' = nruns + 1
       /\ UNCHANGED now
       /\ Idle

\* One script run in which the duplicate-detection setting is saved.
SaveConfig(s, choice) ==
    LET obj == load_config(cfg).ret
    IN /\ nruns < MaxRuns
       /\ csv' = load_tracker_file(csv)
       /\ cfg' = save_config(Dict(obj.keys \cup {kDup}, choice))
       /\ last' = Ran("save_config", s, choice, NoRow, None)
       /\ nruns' = nruns + 1
       /\ UNCHANGED now
       /\ Idle

\* One script run in which "Push latest CSV to GitHub" is clicked.
Push(s, configured, get, put) ==
    LET file0 == load_tracker_file(csv)
        r == push_tracker_to_github(configured, file0, get, put)
    IN /\ nruns < MaxRuns
       /\ csv' = r.file
       /\ cfg' = load_config(cfg).file
       /\ last' = [Ran("push", s, IF r.raised THEN "raised" ELSE "returned", NoRow, None)
                   EXCEPT !.ret = [ok |-> r.ok, msg |-> r.msg, raised |-> r.raised]]
       /\ nruns' = nruns + 1
       /\ UNCHANGED now
       /\ Idle

\* Time passes between script runs.
Tick ==
    /\ now < MaxClock
    /\ now' = now + 1
    /\ UNCHANGED <<csv, cfg, nruns, last>>
    /\ Idle

\* The session whose runs Spec follows; the seed rows are another user's.
Actor == "s1"

MailInputs == {<<FALSE, "sent">>} \cup {<<TRUE, e>> : e \in SendOutcomes}

Next ==
    \/ \E o \in OrderInputs, d \in Days, m \in MailInputs : NewEntry(Actor, o, d, m[1], m[2])
    \/ \E ed \in data_editor(load_data(load_tracker_file(csv))) : SaveEdits(Actor, ed)
    \/ \E e \in SendOutcomes :
          \E sel \in unique_orders(load_data(load_tracker_file(csv))) :
             CompletionEmail(Actor, sel, e)
    \/ \E m \in {"pair", "order_only"} : SaveConfig(Actor, m)
    \/ \E e \in PushInputs : Push(Actor, e[1], e[2], e[3])
    \/ Tick

Spec == Init /\ [][Next]_vars

-----------------------------------------------------------------------------
(* Claims about the handlers, stated over the last script run: the store   *)
(* before it (Pre), the store after it (Post), and what was submitted.     *)

Pre == Records(last.pre)
Post == Records(csv)

Mode == dupe_mode(last.cfgLoad.ret)

Submitted == last.op = "new_entry" /\ last.outcome # "rejected"

\* Some stored record has literally the candidate's order number and request date.
PairMatch ==
    \E i \in DOMAIN Pre :
        /\ Pre[i][cOrder].v = last.new[cOrder].v
        /\ Pre[i][cDate].v = last.new[cDate].v

\* Some stored record has the candidate's order number, once trimmed, and another date.
OrderMatchOtherDate ==
    \E i \in DOMAIN Pre :
        /\ Strip(Pre[i][cOrder].v) = last.new[cOrder].v
        /\ Pre[i][cDate].v # last.new[cDate].v

Target ==
    CHOOSE i \in DOMAIN Pre :
        /\ Pre[i][cOrder] = last.sel
        /\ \A j \in DOMAIN Pre : j > i => Pre[j][cOrder] # last.sel

Completed == last.op = "completion_email" /\ last.outcome = "sent"

Accepted ==
    /\ last.op = "new_entry"
    /\ last.new # NoRow
    /\ ~dup_exists(load_data(load_tracker_file(last.pre)), last.new, Mode)

C12_WitnessNotConfigured ==
    /\ Accepted
    /\ last.mail = <<TRUE, "not_configured">>
    /\ Len(Post) = Len(Pre) + 1

\* C13: whatever the environment and the remote answer, the push returns a
\* (success flag, message) result instead of raising, success only with the
\* commit message, and the records of the local store are the same after the
\* push as before it.
C13_PushNonFatal ==
    last.op = "push"
        => /\ ~last.ret.raised
           /\ last.ret.msg # ""
           /\ last.ret.ok => last.ret.msg = "Committed to GitHub."
           /\ Post = Pre

\* A push whose upload raised, with records in the local store.
C13_Witness ==
    /\ last.op = "push"
    /\ last.ret.msg = "Exception during GitHub push"
    /\ Pre # <<>>

\* The records before and after the run as the application reads them: the
\* request date as a date, archived as a boolean.
PreData == load_data(last.pre).rows
PostData == load_data(csv).rows

\* The record at position i of the store after the run is new or differs from
\* the record at that position before the run in a field other than the two
\* modification stamps.
Mutated(i) ==
    \/ i \notin DOMAIN PreData
    \/ \E c \in Range(SCHEMA) \ {cBy, cAt} : PostData[i][c] # PreData[i][c]

\* The record at position i carries the acting user and the time of the run.
Stamped(i) ==
    /\ PostData[i][cAt] = Str(Timestamp(last.at))
    /\ PostData[i][cBy] = Str(user_email(last.s))

C14_StampOnEntryAndEdit ==
    last.op \in {"new_entry", "save_edits"}
        => \A i \in DOMAIN PostData : Mutated(i) => Stamped(i)

\* C9: a run that found no config file worked with the default mode "pair" and
\* left the default persisted; loading again returns it from the file and
\* writes nothing.
C9_ConfigDefaultPersisted ==
    (last.op \notin {"none", "save_config"} /\ ~last.preCfg.exists)
        => /\ last.cfgLoad.ret = DEFAULT_CONFIG
           /\ Mode = "pair"
           /\ cfg.exists /\ cfg.valid
           /\ load_config(cfg) = [ret |-> last.cfgLoad.ret, file |-> cfg]

\* A New-Entry run that started without a config file.
C9_Witness ==
    /\ last.op = "new_entry"
    /\ ~last.preCfg.exists
    /\ cfg.exists

-----------------------------------------------------------------------------
(* Two sessions submitting New-Entry, each script run taken in two steps:  *)
(* everything up to the frame to save, then save_tracker.  Nothing in the  *)
(* code holds the file between the two.                                    *)

\* The run of session s up to (not including) save_tracker.
RaceLoad(s, order_num, req_day) ==
    LET file0 == load_tracker_file(csv)
        form == new_entry_form(user_email(s), order_num, req_day, EmptyText, EmptyText, now)
        r == new_entry(file0, cfg, form.row, FALSE, "sent", now)
    IN /\ pc[s] = "idle"
       /\ csv' = file0
       /\ cfg' = load_config(cfg).file
       /\ pc' = [pc EXCEPT ![s] = IF form.ok /\ r.save THEN "loaded" ELSE "rejected"]
       /\ local' = [local EXCEPT ![s] = [df |-> r.df, new |-> form.row]]
       /\ race' = [race EXCEPT !.overlap = @ \/ \E t \in Sessions \ {s} : pc[t] = "loaded"]
       /\ UNCHANGED <<now, nruns, last, arg, res>>

\* save_tracker(df) of session s, and the rest of its run.
RaceSave(s) ==
    /\ pc[s] = "loaded"
    /\ csv' = save_tracker(local[s].df)
    /\ pc' = [pc EXCEPT ![s] = "done"]
    /\ race' = [race EXCEPT !.order = Append(@, s)]
    /\ UNCHANGED <<cfg, now, nruns, last, local, arg, res>>

RaceNext ==
    \/ \E s \in Sessions, o \in OrderInputs, d \in Days : RaceLoad(s, o, d)
    \/ \E s \in Sessions : RaceSave(s)

SpecRace == Init /\ [][RaceNext]_vars

CsvLine(row) == [c \in Range(SCHEMA) |-> CsvText(row[c])]

BothSaved == Len(race.order) = 2

\* What session s loaded, as file lines, and the line of the record it added.
LoadedLines(s) == SubSeq(to_csv(local[s].df).lines, 1, Len(local[s].df.rows) - 1)
NewLine(s) == CsvLine(local[s].new)

\* The record of s is not one the store already held when s loaded.
Fresh(s) == NewLine(s) \notin Range(LoadedLines(s))

C3_WitnessSequential == BothSaved /\ ~race.overlap

-----------------------------------------------------------------------------
(* The record store alone: save_tracker followed by load_tracker, on text  *)
(* frames of any column subset.                                            *)

StoreTexts == {EmptyText, <<" ">>, <<"x">>, <<"N", "A">>}

\* A column that is not in SCHEMA.
cNotes == "Notes"

StoreColumns ==
    {SCHEMA, <<cOrder, cReason>>, <<cReason, cOrder>>, <<cNotes, cReason, cOrder>>,
     Append(SCHEMA, cNotes)}

\* A text row over cols: order number and reason vary, the other fields are empty.
TextRow(cols, order, reason) ==
    [c \in Range(cols) |->
       IF c = cOrder THEN Str(order) ELSE IF c = cReason THEN Str(reason) ELSE Str(EmptyText)]

TextRows(cols) == {TextRow(cols, o, r) : o \in StoreTexts, r \in StoreTexts}

StoreFrames ==
    UNION {{Frame(cols, RangeIndex(Len(rows)), rows) :
              rows \in UNION {[1..n -> TextRows(cols)] : n \in 0..MaxRows}} :
           cols \in StoreColumns}

StoreInit ==
    /\ csv = NoFile
    /\ cfg = NoCfg
    /\ now = 0
    /\ nruns = 0
    /\ last = NoLast
    /\ pc = [s \in Sessions |-> "idle"]
    /\ local = [s \in Sessions |-> [df |-> EmptyFrame, new |-> NoRow]]
    /\ race = [overlap |-> FALSE, order |-> <<>>]
    /\ arg \in [df : StoreFrames, crit : {0}]
    /\ res = [df |-> EmptyFrame, ok |-> FALSE]

\* save_tracker(df) and then load_tracker().
SaveThenLoad ==
    /\ ~res.ok
    /\ csv' = save_tracker(arg.df)
    /\ res' = [df |-> load_tracker(csv'), ok |-> TRUE]
    /\ UNCHANGED <<cfg, now, nruns, last, pc, local, race, arg>>

StoreNext == SaveThenLoad

SpecStore == StoreInit /\ [][StoreNext]_vars

\* C8: save followed by load returns the same records in the same order, every
\* Schema field equal to the saved text and a missing field as the empty text.
C8_RoundTrip ==
    res.ok
        => /\ res.df.cols = SCHEMA
           /\ Len(res.df.rows) = Len(arg.df.rows)
           /\ \A i \in DOMAIN arg.df.rows : \A c \in Range(SCHEMA) :
                 res.df.rows[i][c] =
                     IF c \in Range(arg.df.cols) THEN arg.df.rows[i][c] ELSE Str(EmptyText)

\* C15: whatever columns the saved collection has, the persisted header is the
\* full Schema in Schema order, every record is written, and a Schema field
\* the collection lacks is written as an empty column.
C15_SaveWritesFullSchema ==
    res.ok
        => /\ csv.header = SCHEMA
           /\ Len(csv.lines) = Len(arg.df.rows)
           /\ \A i \in DOMAIN csv.lines : \A c \in Range(SCHEMA) \ Range(arg.df.cols) :
                 csv.lines[i][c] = EmptyText

\* C15 for what save does write: the persisted header is the Schema columns
\* the collection has, in Schema order, with no column outside the Schema.
C15_SaveWritesPresentSchemaColumns ==
    res.ok
        => /\ Range(csv.header) = Range(SCHEMA) \cap Range(arg.df.cols)
           /\ \A i, j \in DOMAIN csv.header :
                 i < j => \E a, b \in DOMAIN SCHEMA :
                             a < b /\ SCHEMA[a] = csv.header[i] /\ SCHEMA[b] = csv.header[j]
           /\ Len(csv.lines) = Len(arg.df.rows)

-----------------------------------------------------------------------------
(* The tracker filter: filters_ui on a frame and a set of criteria.  A     *)
(* boolean Series is a function from index labels to BOOLEAN.              *)

DayOf(t) == CHOOSE k \in 0..9 : DigitChars[k + 1] = t[2]

Labels(df) == Range(df.idx)

\* The position of a label in the frame's index.
PosOf(df, l) == CHOOSE i \in DOMAIN df.idx : df.idx[i] = l

\* pd.Series([True] * len(df))
AllTrue(df) == [l \in 0..(Len(df.rows) - 1) |-> TRUE]

\* mask &= series, where the series holds keep[i] for the i-th row of df and
\* is indexed like df: the result keeps the mask's own index, and a label the
\* series lacks counts as False.
AndInPlace(mask, df, keep) ==
    [l \in DOMAIN mask |-> mask[l] /\ l \in Labels(df) /\ keep[PosOf(df, l)]]

\* start <= d <= end for a cell of the date column; comparing a datetime.date
\* with NaT raises TypeError.
InRange(cell, range) == range[1] <= DayOf(cell.v) /\ DayOf(cell.v) <= range[2]

\* any(str(v).lower().find(ql) >= 0 for v in r.values)
AnyField(row, ql) == \E c \in DOMAIN row : Find(Lower(row[c].v), ql)

NoRange == <<>>

\* filters_ui from the widget values on: ok is FALSE when the code raises.
filters_ui(df, crit) ==
    LET m0 == AllTrue(df)
        keep1 == [i \in DOMAIN df.rows |-> df.rows[i][cArchived] # BoolCell(TRUE)]
        m1 == IF ~crit.show_archived THEN AndInPlace(m0, df, keep1) ELSE m0
        keep2 == [i \in DOMAIN df.rows |-> df.rows[i][cStatus].v \in crit.status]
        m2 == IF crit.status # {} THEN AndInPlace(m1, df, keep2) ELSE m1
        keep3 == [i \in DOMAIN df.rows |->
                    Find(Lower(df.rows[i][cInCorrect].v), Lower(crit.store_incorrect))]
        m3 == IF crit.store_incorrect # EmptyText THEN AndInPlace(m2, df, keep3) ELSE m2
        dated == crit.date_range # NoRange
        raises == dated /\ \E i \in DOMAIN df.rows : df.rows[i][cDate].ty # "date"
        keep4 == [i \in DOMAIN df.rows |-> InRange(df.rows[i][cDate], crit.date_range)]
        m4 == IF dated /\ ~raises THEN AndInPlace(m3, df, keep4) ELSE m3
        keep5 == [i \in DOMAIN df.rows |-> AnyField(df.rows[i], Lower(crit.q))]
        m5 == IF crit.q # EmptyText THEN AndInPlace(m4, df, keep5) ELSE m4
        unalignable == \E l \in Labels(df) : l \notin DOMAIN m5
        kept == SelectSeq2(df.idx, {l \in Labels(df) \cap DOMAIN m5 : m5[l]})
    IN IF raises \/ unalignable THEN [ok |-> FALSE, df |-> EmptyFrame]
       ELSE [ok |-> TRUE,
             df |-> Frame(df.cols, kept, [i \in DOMAIN kept |-> df.rows[PosOf(df, kept[i])]])]

FilterRow(day, store, archived) ==
    [c \in Range(SCHEMA) |->
       CASE c = cDate -> IF day = 0 THEN NaT ELSE DateCell(IsoDate(day))
         [] c = cOrder -> Str(<<"B", "1">>)
         [] c = cInCorrect -> Str(store[1])
         [] c = cStatus -> Str(store[2])
         [] c = cReason -> Str(EmptyText)
         [] c = cSent -> Str(EmptyText)
         [] c = cArchived -> BoolCell(archived)
         [] c = cBy -> Str(<<"a">>)
         [] c = cAt -> Str(Timestamp(0))]

\* Rows with no date or one of two days, archived or not, and either no
\* In-Correct store and status F or the store "Ab" and status C.
FilterRows ==
    {FilterRow(d, st, a) :
        d \in {0, 1, 2}, st \in {<<EmptyText, <<"F">>>>, <<<<"A", "b">>, <<"C">>>>},
        a \in BOOLEAN}

\* Frames as load_data returns them.
FilterFrames ==
    {Frame(SCHEMA, RangeIndex(Len(rows)), rows) :
        rows \in UNION {[1..n -> FilterRows] : n \in 0..MaxRows}}

Criteria ==
    [show_archived : BOOLEAN,
     status : {{}, {<<"C">>}},
     store_incorrect : {EmptyText, <<"a">>},
     date_range : {NoRange, <<1, 1>>},
     q : {EmptyText, <<"t", "r", "u">>}]

NoResult == [ok |-> FALSE, df |-> EmptyFrame]

FilterInit ==
    /\ csv = NoFile
    /\ cfg = NoCfg
    /\ now = 0
    /\ nruns = 0
    /\ last = NoLast
    /\ pc = [s \in Sessions |-> "idle"]
    /\ local = [s \in Sessions |-> [df |-> EmptyFrame, new |-> NoRow]]
    /\ race = [overlap |-> FALSE, order |-> <<>>]
    /\ arg \in [df : FilterFrames, crit : Criteria]
    /\ res = [n |-> 0, first |-> NoResult, again |-> NoResult]

\* The filter applied to the loaded frame.
ApplyFilter ==
    /\ res.n = 0
    /\ res' = [n |-> 1, first |-> filters_ui(arg.df, arg.crit), again |-> NoResult]
    /\ UNCHANGED <<csv, cfg, now, nruns, last, pc, local, race, arg>>

\* The filter applied to its own output, same criteria.
ReapplyFilter ==
    /\ res.n = 1
    /\ res.first.ok
    /\ res' = [res EXCEPT !.n = 2, !.again = filters_ui(res.first.df, arg.crit)]
    /\ UNCHANGED <<csv, cfg, now, nruns, last, pc, local, race, arg>>

FilterNext == ApplyFilter \/ ReapplyFilter

SpecFilter == FilterInit /\ [][FilterNext]_vars

\* C10: the filter applied to its own output with the same criteria succeeds
\* and yields the same sequence of records.
C10_FilterIdempotent ==
    res.n = 2 => res.again.ok /\ res.again.df.rows = res.first.df.rows

\* The criteria other than archived visibility, as the filter contract states
\* them, for one record of the loaded frame.
OtherCriteriaMet(row, crit) ==
    /\ crit.status # {} => row[cStatus].v \in crit.status
    /\ crit.store_incorrect # EmptyText
          => Find(Lower(row[cInCorrect].v), Lower(crit.store_incorrect))
    /\ crit.date_range # NoRange
          => row[cDate].ty = "date" /\ InRange(row[cDate], crit.date_range)
    /\ crit.q # EmptyText => \E c \in DOMAIN row : Find(Lower(row[c].v), Lower(crit.q))

\* The record at position i of the loaded frame is in the filter's result.
Present(i) == res.first.ok /\ arg.df.idx[i] \in Range(res.first.df.idx)

\* C11: a record that satisfies every other criterion is in the filter result
\* exactly when it is not archived or "show archived" is on.
C11_ArchivedVisibility ==
    res.n >= 1
        => \A i \in DOMAIN arg.df.rows :
              OtherCriteriaMet(arg.df.rows[i], arg.crit)
                  => (Present(i) <=> (arg.crit.show_archived
                                        \/ arg.df.rows[i][cArchived] = BoolCell(FALSE)))

\* C11 where the filter returns: whenever filters_ui does not raise, a record
\* that satisfies every other criterion is in the result exactly when it is not
\* archived or "show archived" is on.
C11_ArchivedVisibilityWhenReturned ==
    res.n >= 1 /\ res.first.ok
        => \A i \in DOMAIN arg.df.rows :
              OtherCriteriaMet(arg.df.rows[i], arg.crit)
                  => (Present(i) <=> (arg.crit.show_archived
                                        \/ arg.df.rows[i][cArchived] = BoolCell(FALSE)))

====
